---- MODULE Spec2Model ----
(***************************************************************************)
(* The IRC plugin of vy (vyapp/plugins/vyirc.py): one IrcMode object per   *)
(* network connection, its login sequence, the display surfaces (areas) it *)
(* opens for channels and private chats, and the protocol-event handlers   *)
(* it registers on the connection with xmap and removes with zmap.         *)
(*                                                                         *)
(* Strings are the strings the code builds: 'NICK %s' % nick is            *)
(* "NICK " \o nick, an event name 'PART->%s->MEPART' % chan is             *)
(* "PART->" \o chan \o "->MEPART".                                         *)
(*                                                                         *)
(* The event loop is single-threaded: one action is one event (a protocol  *)
(* event of the connection or a key of the user) with every handler it     *)
(* runs.  The handlers of one event run in the order of their              *)
(* registration.  The server only sends what the client's channel          *)
(* membership allows (inchan): a self-join for a channel it is not in, a   *)
(* self-part, a kick or a channel message for one it is in.                *)
(***************************************************************************)
EXTENDS Integers, Sequences, FiniteSets, TLC

VARIABLES
    ircmode,      \* [con -> the IrcMode attributes nick, user, irccmd, channels, addr]
    constate,     \* [con -> "none" | "connecting" | "up" | "closed" | "failed"]
    misc_nick,    \* [con -> self.misc.nick, the nickname the connection currently holds]
    handlers,     \* the (event, handler) pairs registered with xmap and not yet zmap'ed
    areas,        \* the display surfaces root.note.create made, in creation order
    sent,         \* [con -> the commands handed to send_cmd / send_msg, in order]
    inchan,       \* [con -> the channels the server has this client in]
    motd,         \* [con -> number of '376' events handled]
    unset_calls,  \* per area: how often the unset closure of its session has run
    dict_order,   \* the order in which a dict iterates names that differ only in case
    seq,          \* [con -> self.seq, the completion cursor of the IrcMode object]
    last          \* the event handled last, and what its handler returned

vars == <<ircmode, constate, misc_nick, handlers, areas, sent, inchan, motd,
          unset_calls, dict_order, seq, last>>

(***************************************************************************)
(* Bounds of the model.                                                    *)
(***************************************************************************)
MaxAreas == 3
MaxLines == 2
MaxSent  == 10
MaxChans == 3
MaxTyped == 4

Cons == {1, 2}

(***************************************************************************)
(* The inputs.                                                             *)
(***************************************************************************)
Addr     == "irc.freenode.org"
MyNick   == "vy"
NewNicks == {"vy_"}
Peers    == {"bob", "BOB"}
Chans    == {"#vy", "#py", "#tk"}
Users    == {"vy vy vy :vyirc"}
Irccmds  == {"PRIVMSG nickserv :identify x", "MODE vy +i"}
Texts    == {"hi"}
Tokens   == {"tok1", "tok2"}
ChansJoined == {"#vy", "#py"}
RawCmds  == {"PART #vy"}

Addr2    == "irc.oftc.net"
Names == Peers \cup Chans \cup {Addr, Addr2, MyNick} \cup NewNicks

\* str.lower() on the names of the model
Lower[s \in Names] ==
    CASE s \in {"bob", "BOB"} -> "bob"
      [] OTHER -> s

\* what the user types before <Return>; <U+E9> stands for the one character e-acute
Typed    == {"hi", "caf<U+E9>"}

\* unicode.encode('utf-8') on the typed texts: e-acute becomes the bytes C3 A9
Utf8[t \in Typed] == IF t = "caf<U+E9>" THEN "caf<C3><A9>" ELSE t

Seqs(S, n) == UNION {[1..k -> S] : k \in 0..n}

(***************************************************************************)
(* Display formats.                                                        *)
(***************************************************************************)
H1(nick, msg)  == "<" \o nick \o "> " \o msg \o "\n"
H2(msg)        == "Topic :" \o msg \o "\n"
H3(nick, chan) == ">>> " \o nick \o " has left " \o chan \o " <<<\n"
H4(nick, chan) == ">>> " \o nick \o " has joined " \o chan \o " <<<\n"
H5(nicka, nickb) == ">>> " \o nicka \o " is now known as " \o nickb \o " <<<\n"
H6(peers)      == "Peers:" \o peers \o "\n"
H7(nick, msg)  == ">>> " \o nick \o " has quit (" \o msg \o ") <<<\n"
H8(nick, target, chan, msg) ==
    ">>> " \o nick \o " has kicked " \o target \o " from " \o chan \o " (" \o msg \o ") <<<\n"
\* '>>> %s sets mode %s %s on %s <<<\n', its four slots in order
H9(s1, s2, s3, s4) ==
    ">>> " \o s1 \o " sets mode " \o s2 \o " " \o s3 \o " on " \o s4 \o " <<<\n"

(***************************************************************************)
(* Surfaces.                                                               *)
(***************************************************************************)
AreaIds   == 1..Len(areas)
OpenAreas == {a \in AreaIds : areas[a].open}

\* root.note.create(name): a new tab; create_area adds the CHDATA mark
NewArea(name, kind, c) ==
    [name |-> name, kind |-> kind, con |-> c, open |-> TRUE, lines |-> <<>>]

RECURSIVE LinesUpTo(_)
LinesUpTo(n) == IF n = 0 THEN 0 ELSE Len(areas[n].lines) + LinesUpTo(n - 1)
\* the lines rendered so far, over all surfaces
TotalLines == LinesUpTo(Len(areas))

\* area.insee(mark, line): the line is appended to the surface
Insee(as, a, line) == [as EXCEPT ![a].lines = Append(@, line)]

\* The event handled last: its name, connection, the surface it acted on (0: none),
\* its arguments, what the key handler returned, and the surfaces whose handler
\* raised because the surface was already destroyed.
LastRaised(op, c, a, arg, text, ret, raised) ==
    [op |-> op, con |-> c, area |-> a, arg |-> arg, text |-> text, ret |-> ret,
     raised |-> raised]
Last(op, c, a, arg, text, ret) == LastRaised(op, c, a, arg, text, ret, {})

(***************************************************************************)
(* Handler registrations: xmap(con, key, fn) adds one, zmap removes it.    *)
(* fn names the closure, area the surface the closure was built for (0 for *)
(* the handlers of the connection itself).                                 *)
(***************************************************************************)
Handler(c, key, fn, a) == [con |-> c, key |-> key, fn |-> fn, area |-> a]

Registered(c, key) == {h \in handlers : h.con = c /\ h.key = key}

\* set_up_con, set_common_irc_handles: the handlers of the connection
con_handles(c, a) ==
    { Handler(c, "CLOSE", "lose", 0),
      Handler(c, "MEJOIN", "irc.l1", a),
      Handler(c, "PING", "irc.l2", a),
      Handler(c, "FOUND", "irc.l3", a),
      Handler(c, "PMSG", "deliver_user_msg", 0),
      Handler(c, "376", "irccmd", 0),
      Handler(c, "376", "auto_join", 0) }

\* the two commands set_up_con sends
login_swapped(self) == <<"USER " \o self.user, "NICK " \o self.nick>>
login(self) == <<"NICK " \o self.nick, "USER " \o self.user>>

\* auto_join: one JOIN per channel of self.channels, in list order
auto_join(self) ==
    [i \in 1..Len(self.channels) |-> "JOIN " \o self.channels[i]]

\* spawn(con, '376'): the registered '376' handlers, run in registration order
motd_cmds(c) ==
    (IF Registered(c, "376") \cap {Handler(c, "376", "irccmd", 0)} # {}
        THEN <<ircmode[c].irccmd>> ELSE <<>>)
    \o (IF Registered(c, "376") \cap {Handler(c, "376", "auto_join", 0)} # {}
        THEN auto_join(ircmode[c]) ELSE <<>>)

(***************************************************************************)
(* Initial states: IrcMode.__init__ has run for connection 1 and the       *)
(* connect is in flight; connection 2 does not exist.                      *)
(***************************************************************************)
Configs ==
    [nick : {MyNick}, user : Users, irccmd : Irccmds,
     channels : Seqs(Chans, MaxChans), addr : {Addr}]

NoConfig == [nick |-> "", user |-> "", irccmd |-> "", channels |-> <<>>, addr |-> ""]

\* __init__ sets no attribute seq: until reset runs, self.seq does not exist
NoSeq == [area |-> 0, cands |-> <<>>, pos |-> 0]

\* The iteration order of a Python 2 dict is fixed by the hashes of its keys and
\* unknown to the program: any order of the names is possible, and it never changes.
Orders == {o \in [1..Cardinality(Peers) -> Peers] : \A i, j \in DOMAIN o : o[i] = o[j] => i = j}

InitWith(cfgs, orders) ==
    /\ \E cfg \in cfgs : ircmode = [c \in Cons |-> IF c = 1 THEN cfg ELSE NoConfig]
    /\ dict_order \in orders
    /\ seq = [c \in Cons |-> NoSeq]
    /\ constate = [c \in Cons |-> IF c = 1 THEN "connecting" ELSE "none"]
    /\ misc_nick = [c \in Cons |-> ""]
    /\ handlers = {}
    /\ areas = <<>>
    /\ sent = [c \in Cons |-> <<>>]
    /\ inchan = [c \in Cons |-> {}]
    /\ motd = [c \in Cons |-> 0]
    /\ unset_calls = <<>>
    /\ last = Last("__init__", 1, 0, "", "", "")

(***************************************************************************)
(* CONNECT: set_up_con.                                                    *)
(***************************************************************************)
set_up_con(c) ==
    /\ constate[c] = "connecting"
    /\ Len(areas) < MaxAreas
    /\ LET a == Len(areas) + 1 IN
        /\ areas' = Append(areas, NewArea(ircmode[c].addr, "net", c))
        /\ unset_calls' = Append(unset_calls, 0)
        /\ handlers' = handlers \cup con_handles(c, a)
        /\ last' = Last("CONNECT", c, a, "", "", "")
    /\ sent' = [sent EXCEPT ![c] = @ \o login(ircmode[c])]
    /\ constate' = [constate EXCEPT ![c] = "up"]
    /\ UNCHANGED <<seq, dict_order, ircmode, misc_nick, inchan, motd>>

connect_err_logs_in(self) == <<"NICK " \o self.nick>>

\* what on_connect_err sends on the connection: nothing
connect_err_cmds(self) == <<>>

\* CONNECT_ERR: on_connect_err only prints
on_connect_err(c) ==
    /\ constate[c] = "connecting"
    /\ constate' = [constate EXCEPT ![c] = "failed"]
    /\ sent' = [sent EXCEPT ![c] = @ \o connect_err_cmds(ircmode[c])]
    /\ last' = Last("CONNECT_ERR", c, 0, "", "not connected", "")
    /\ UNCHANGED <<seq, dict_order, ircmode, misc_nick, handlers, areas, inchan, motd, unset_calls>>

\* CLOSE: lambda con, err: lose(con); the connection delivers no event afterwards
on_close(c) ==
    /\ constate[c] = "up"
    /\ Registered(c, "CLOSE") # {}
    /\ constate' = [constate EXCEPT ![c] = "closed"]
    /\ last' = Last("CLOSE", c, 0, "", "", "")
    /\ UNCHANGED <<seq, dict_order, ircmode, misc_nick, handlers, areas, sent, inchan, motd, unset_calls>>

\* '376' (end of MOTD): the irccmd lambda, then auto_join
on_376(c) ==
    /\ constate[c] = "up"
    /\ Len(sent[c]) + Len(motd_cmds(c)) <= MaxSent
    /\ sent' = [sent EXCEPT ![c] = @ \o motd_cmds(c)]
    /\ motd' = [motd EXCEPT ![c] = @ + 1]
    /\ last' = Last("376", c, 0, "", "", "")
    /\ UNCHANGED <<seq, dict_order, ircmode, constate, misc_nick, handlers, areas, inchan, unset_calls>>

pong_first_token(servaddr) == "PONG :tok1"

\* 'PONG :%s' % servaddr
pong(servaddr) == "PONG :" \o servaddr

\* PING: l2 answers with the server's token
on_ping(c, servaddr) ==
    /\ constate[c] = "up"
    /\ Registered(c, "PING") # {}
    /\ Len(sent[c]) < MaxSent
    /\ sent' = [sent EXCEPT ![c] = Append(@, pong(servaddr))]
    /\ last' = Last("PING", c, 0, servaddr, "", "")
    /\ UNCHANGED <<seq, dict_order, ircmode, constate, misc_nick, handlers, areas, inchan, motd, unset_calls>>

InitLogin == InitWith(Configs, {<<"bob", "BOB">>})

NextLogin ==
    \E c \in {1} :
        \/ set_up_con(c)
        \/ on_connect_err(c)
        \/ on_close(c)
        \/ on_376(c)
        \/ \E t \in Tokens : on_ping(c, t)

SpecLogin == InitLogin /\ [][NextLogin]_vars

(***************************************************************************)
(* Channel sessions: create_channel, set_common_chan_handles, unset.       *)
(***************************************************************************)
\* the tuple `events` of set_common_chan_handles, for the session of surface a
chan_events(c, chan, a) ==
    { Handler(c, "PRIVMSG->" \o chan, "chan.l1", a),
      Handler(c, "332->" \o chan, "chan.l2", a),
      Handler(c, "PART->" \o chan, "chan.l3", a),
      Handler(c, "JOIN->" \o chan, "chan.l4", a),
      Handler(c, "MENICK", "chan.l5", a),
      Handler(c, "353->" \o chan, "chan.l6", a),
      Handler(c, "QUIT", "chan.l7", a),
      Handler(c, "KICK->" \o chan, "chan.l8", a),
      Handler(c, "MODE", "chan.l9", a) }

MEPART(chan) == "PART->" \o chan \o "->MEPART"
KICKME(chan) == "KICK->" \o chan \o "->ME"

\* the two xmap calls that follow the definition of unset
chan_transitions(c, chan, a) ==
    { Handler(c, MEPART(chan), "chan.unset", a),
      Handler(c, KICKME(chan), "chan.unset", a) }

\* what one run of unset removes with zmap
unset_zmaps(c, chan, a) ==
    chan_events(c, chan, a) \cup {Handler(c, MEPART(chan), "chan.unset", a)}

\* every handler registration whose closure holds surface a
SessionHandlers(a) == {h \in handlers : h.area = a /\ h.fn \notin {"irc.l1", "irc.l2", "irc.l3"}}

\* MEJOIN: l1 -> create_channel
on_mejoin(c, chan) ==
    /\ constate[c] = "up"
    /\ Registered(c, "MEJOIN") # {}
    /\ chan \notin inchan[c]
    /\ Len(areas) < MaxAreas
    /\ LET a == Len(areas) + 1 IN
        /\ areas' = Append(areas, NewArea(chan, "chan", c))
        /\ unset_calls' = Append(unset_calls, 0)
        /\ handlers' = handlers \cup chan_events(c, chan, a) \cup chan_transitions(c, chan, a)
        /\ last' = Last("MEJOIN", c, a, chan, "", "")
    /\ inchan' = [inchan EXCEPT ![c] = @ \cup {chan}]
    /\ UNCHANGED <<seq, dict_order, ircmode, constate, misc_nick, sent, motd>>

\* spawn(con, key) for a transition key: every unset closure registered under it runs
run_unsets(c, chan, key) ==
    LET ran == {h.area : h \in Registered(c, key)} IN
    /\ handlers' = handlers \ UNION {unset_zmaps(c, chan, a) : a \in ran}
    /\ unset_calls' = [a \in DOMAIN unset_calls |->
                          IF a \in ran THEN unset_calls[a] + 1 ELSE unset_calls[a]]

\* 'PART->chan->MEPART': the client has left the channel
on_mepart(c, chan) ==
    /\ constate[c] = "up"
    /\ chan \in inchan[c]
    /\ run_unsets(c, chan, MEPART(chan))
    /\ inchan' = [inchan EXCEPT ![c] = @ \ {chan}]
    /\ last' = Last("MEPART", c, 0, chan, "", "")
    /\ UNCHANGED <<seq, dict_order, ircmode, constate, misc_nick, areas, sent, motd>>

\* 'KICK->chan->ME': the client was kicked from the channel
on_kickme(c, chan) ==
    /\ constate[c] = "up"
    /\ chan \in inchan[c]
    /\ run_unsets(c, chan, KICKME(chan))
    /\ inchan' = [inchan EXCEPT ![c] = @ \ {chan}]
    /\ last' = Last("KICKME", c, 0, chan, "", "")
    /\ UNCHANGED <<seq, dict_order, ircmode, constate, misc_nick, areas, sent, motd>>

destroy_silent(a) == <<>>

\* the '<Destroy>' binding of create_channel: the only thing a tab close runs
destroy_cmds(a) == IF areas[a].kind = "chan" THEN <<"PART " \o areas[a].name>> ELSE <<>>

\* the user closes the tab of surface a
destroy(a) ==
    /\ areas[a].open
    /\ Len(sent[areas[a].con]) + Len(destroy_cmds(a)) <= MaxTyped
    /\ areas' = [areas EXCEPT ![a].open = FALSE]
    /\ sent' = [sent EXCEPT ![areas[a].con] = @ \o destroy_cmds(a)]
    /\ last' = Last("Destroy", areas[a].con, a, areas[a].name, "", "")
    /\ UNCHANGED <<seq, dict_order, ircmode, constate, misc_nick, handlers, inchan, motd, unset_calls>>

\* spawn(con, key, ...): every handler registered under key renders its line
\* (line[a] for the session of surface a) into its own surface; a handler whose
\* surface is destroyed raises instead
render(c, key, line) ==
    LET hs == Registered(c, key) IN
    /\ TotalLines + Cardinality(hs) <= MaxLines
    /\ areas' = [a \in DOMAIN areas |->
                    IF areas[a].open /\ \E h \in hs : h.area = a
                        THEN [areas[a] EXCEPT !.lines = Append(@, line[a])]
                        ELSE areas[a]]

Dangling(c, key) == {h.area : h \in {g \in Registered(c, key) : ~areas[g.area].open}}

\* 'PRIVMSG->chan': l1 of every session registered for the channel
on_chan_msg(c, chan, nick, msg) ==
    /\ constate[c] = "up"
    /\ chan \in inchan[c]
    /\ render(c, "PRIVMSG->" \o chan, [a \in DOMAIN areas |-> H1(nick, msg)])
    /\ last' = LastRaised("PRIVMSG", c, 0, chan, msg, "", Dangling(c, "PRIVMSG->" \o chan))
    /\ UNCHANGED <<seq, dict_order, ircmode, constate, misc_nick, handlers, sent, inchan, motd, unset_calls>>

\* <Control-e>: send_cmd sends what the user typed, verbatim
send_cmd(a, data) ==
    /\ areas[a].open
    /\ Len(sent[areas[a].con]) < MaxTyped
    /\ sent' = [sent EXCEPT ![areas[a].con] = Append(@, data)]
    /\ last' = Last("Control-e", areas[a].con, a, "", data, "")
    /\ UNCHANGED <<seq, dict_order, ircmode, constate, misc_nick, handlers, areas, inchan, motd, unset_calls>>

OneConfig ==
    { [nick |-> MyNick, user |-> "vy vy vy :vyirc", irccmd |-> "MODE vy +i",
       channels |-> <<"#vy">>, addr |-> Addr] }

InitChan == InitWith(OneConfig, {<<"bob", "BOB">>})

NextChan ==
    \/ \E c \in {1} :
        \/ set_up_con(c)
        \/ on_close(c)
        \/ \E chan \in ChansJoined :
            \/ on_mejoin(c, chan)
            \/ on_mepart(c, chan)
            \/ on_kickme(c, chan)
            \/ \E msg \in Texts : on_chan_msg(c, chan, "bob", msg)
    \/ \E a \in AreaIds : destroy(a)
    \/ \E a \in AreaIds, data \in RawCmds : send_cmd(a, data)

SpecChan == InitChan /\ [][NextChan]_vars

(***************************************************************************)
(* Private chats: start_user_chat, create_user_chat, deliver_user_msg,     *)
(* send_msg.                                                               *)
(***************************************************************************)
\* '001' and 'NICK' as Misc(con) handles them: self.misc.nick follows the nickname
\* the server knows the client by
on_001(c) ==
    /\ constate[c] = "up"
    /\ misc_nick[c] = ""
    /\ misc_nick' = [misc_nick EXCEPT ![c] = ircmode[c].nick]
    /\ last' = Last("001", c, 0, ircmode[c].nick, "", "")
    /\ UNCHANGED <<seq, dict_order, ircmode, constate, handlers, areas, sent, inchan, motd, unset_calls>>

\* 'MENICK': the client's own nickname changed; l5 of every channel session renders it
on_menick(c, nickb) ==
    /\ constate[c] = "up"
    /\ misc_nick[c] # ""
    /\ nickb # misc_nick[c]
    /\ misc_nick' = [misc_nick EXCEPT ![c] = nickb]
    /\ render(c, "MENICK", [a \in DOMAIN areas |-> H5(misc_nick[c], nickb)])
    /\ last' = LastRaised("MENICK", c, 0, nickb, "", "", Dangling(c, "MENICK"))
    /\ UNCHANGED <<seq, dict_order, ircmode, constate, handlers, sent, inchan, motd, unset_calls>>

\* create_user_chat: a new surface named after the nick, always
create_user_chat(as, c, nick) == Append(as, NewArea(nick, "user", c))

\* <Control-c>: start_user_chat opens a chat with the nick the user typed
start_user_chat(a, nick) ==
    /\ areas[a].open
    /\ Len(areas) < MaxAreas
    /\ areas' = create_user_chat(areas, areas[a].con, nick)
    /\ unset_calls' = Append(unset_calls, 0)
    /\ last' = Last("Control-c", areas[a].con, Len(areas) + 1, nick, "", "")
    /\ UNCHANGED <<seq, dict_order, ircmode, constate, misc_nick, handlers, sent, inchan, motd>>

Max(S) == CHOOSE x \in S : \A y \in S : y <= x

\* AreaVi.get_opened_files(root): name -> surface over every open surface; of two
\* surfaces with one name the one created later stays
opened_files ==
    [n \in {areas[a].name : a \in OpenAreas} |->
        Max({a \in OpenAreas : areas[a].name = n})]

Rank(n) == IF n \in Peers THEN CHOOSE i \in DOMAIN dict_order : dict_order[i] = n ELSE 0

\* dict(map(lambda (key, value): (key.lower(), value), ...iteritems())): of the
\* names with one lower-case form, the one iterated last stays
lowered_files ==
    [k \in {Lower[n] : n \in DOMAIN opened_files} |->
        LET ns == {n \in DOMAIN opened_files : Lower[n] = k}
        IN  opened_files[CHOOSE n \in ns : \A m \in ns : Rank(m) <= Rank(n)]]

\* the key deliver_user_msg looks up
lookup_key_exact(nick) == nick
lookup_key(nick) == Lower[nick]

\* the surface the lookup yields, 0 for KeyError
Lookup(nick) ==
    IF lookup_key(nick) \in DOMAIN lowered_files THEN lowered_files[lookup_key(nick)] ELSE 0

\* try / except KeyError / finally of deliver_user_msg: the surfaces afterwards
deliver_areas_no_finally(c, nick, msg) ==
    IF Lookup(nick) = 0
        THEN create_user_chat(areas, c, nick)
        ELSE Insee(areas, Lookup(nick), H1(nick, msg))
deliver_areas(c, nick, msg) ==
    IF Lookup(nick) = 0
        THEN Insee(create_user_chat(areas, c, nick), Len(areas) + 1, H1(nick, msg))
        ELSE Insee(areas, Lookup(nick), H1(nick, msg))

\* 'PMSG': a private message from nick (last.ret names the exception the handler
\* caught, if any)
deliver_user_msg(c, nick, msg) ==
    /\ constate[c] = "up"
    /\ Registered(c, "PMSG") # {}
    /\ TotalLines < MaxLines
    /\ IF Lookup(nick) = 0
          THEN /\ Len(areas) < MaxAreas
               /\ unset_calls' = Append(unset_calls, 0)
               /\ last' = Last("PMSG", c, Len(areas) + 1, nick, msg, "KeyError")
          ELSE /\ unset_calls' = unset_calls
               /\ last' = Last("PMSG", c, Lookup(nick), nick, msg, "")
    /\ areas' = deliver_areas(c, nick, msg)
    /\ UNCHANGED <<seq, dict_order, ircmode, constate, misc_nick, handlers, sent, inchan, motd>>

\* the nickname send_msg echoes with
echo_nick_configured(c) == ircmode[c].nick
echo_nick(c) == misc_nick[c]

\* <Return> in a channel or chat surface: send_msg
send_msg(a, data) ==
    /\ areas[a].open
    /\ areas[a].kind \in {"chan", "user"}
    /\ TotalLines < MaxLines
    /\ Len(sent[areas[a].con]) < MaxTyped
    /\ areas' = Insee(areas, a, H1(echo_nick(areas[a].con), data))
    /\ sent' = [sent EXCEPT ![areas[a].con] =
                    Append(@, "PRIVMSG " \o areas[a].name \o " :" \o Utf8[data])]
    /\ last' = Last("Return", areas[a].con, a, areas[a].name, data, "break")
    /\ UNCHANGED <<seq, dict_order, ircmode, constate, misc_nick, handlers, inchan, motd, unset_calls>>

InitQuery == InitWith(OneConfig, Orders)

NextQuery ==
    \/ \E c \in {1} :
        \/ set_up_con(c)
        \/ \E nick \in Peers, msg \in Texts : deliver_user_msg(c, nick, msg)
    \/ \E a \in AreaIds, nick \in Peers : start_user_chat(a, nick)
    \/ \E a \in AreaIds : destroy(a)

SpecQuery == InitQuery /\ [][NextQuery]_vars

InitEnter == InitWith(OneConfig, {<<"bob", "BOB">>})

NextEnter ==
    \/ \E c \in {1} :
        \/ set_up_con(c)
        \/ on_001(c)
        \/ \E nickb \in {MyNick} \cup NewNicks : on_menick(c, nickb)
        \/ on_mejoin(c, "#vy")
        \/ on_close(c)
    \/ \E a \in AreaIds : start_user_chat(a, "bob")
    \/ \E a \in AreaIds, data \in Typed : send_msg(a, data)

SpecEnter == InitEnter /\ [][NextEnter]_vars

(***************************************************************************)
(* Two IrcMode objects, each with its own connection, in one editor.       *)
(***************************************************************************)
TwoConfigs ==
    [c \in Cons |->
        [nick |-> MyNick, user |-> "vy vy vy :vyirc", irccmd |-> "MODE vy +i",
         channels |-> <<>>, addr |-> IF c = 1 THEN Addr ELSE Addr2]]

InitTwo ==
    /\ ircmode = TwoConfigs
    /\ dict_order = <<"bob", "BOB">>
    /\ seq = [c \in Cons |-> NoSeq]
    /\ constate = [c \in Cons |-> "connecting"]
    /\ misc_nick = [c \in Cons |-> ""]
    /\ handlers = {}
    /\ areas = <<>>
    /\ sent = [c \in Cons |-> <<>>]
    /\ inchan = [c \in Cons |-> {}]
    /\ motd = [c \in Cons |-> 0]
    /\ unset_calls = <<>>
    /\ last = Last("__init__", 2, 0, "", "", "")

NextTwo ==
    \/ \E c \in Cons :
        \/ set_up_con(c)
        \/ \E nick \in Peers, msg \in Texts : deliver_user_msg(c, nick, msg)
    \/ \E a \in AreaIds, nick \in Peers : start_user_chat(a, nick)
    \/ \E a \in AreaIds, data \in Typed : send_msg(a, data)

SpecTwo == InitTwo /\ [][NextTwo]_vars

(***************************************************************************)
(* Rendering of channel events: l2..l9 of set_common_chan_handles.         *)
(***************************************************************************)
Modes    == {"+o"}
Targets  == {"BOB", ""}
PeerList == {"bob BOB"}

\* an inbound event as dispatched: its key's channel, its sender and arguments
LastEvent(op, c, chan, nick, text, target, raised) ==
    [op |-> op, con |-> c, area |-> 0, arg |-> chan, text |-> text, ret |-> "",
     raised |-> raised, nick |-> nick, target |-> target]

\* '332->chan': l2 renders the topic
on_332(c, chan, msg) ==
    /\ constate[c] = "up"
    /\ chan \in inchan[c]
    /\ render(c, "332->" \o chan, [a \in DOMAIN areas |-> H2(msg)])
    /\ last' = LastEvent("332", c, chan, "", msg, "", Dangling(c, "332->" \o chan))
    /\ UNCHANGED <<seq, dict_order, ircmode, constate, misc_nick, handlers, sent, inchan, motd, unset_calls>>

\* 'PART->chan': l3 renders a peer leaving, with the channel of the closure
on_part(c, chan, nick) ==
    /\ constate[c] = "up"
    /\ chan \in inchan[c]
    /\ render(c, "PART->" \o chan, [a \in DOMAIN areas |-> H3(nick, areas[a].name)])
    /\ last' = LastEvent("PART", c, chan, nick, "", "", Dangling(c, "PART->" \o chan))
    /\ UNCHANGED <<seq, dict_order, ircmode, constate, misc_nick, handlers, sent, inchan, motd, unset_calls>>

\* 'JOIN->chan': l4 renders a peer joining, with the channel of the closure
on_join(c, chan, nick) ==
    /\ constate[c] = "up"
    /\ chan \in inchan[c]
    /\ render(c, "JOIN->" \o chan, [a \in DOMAIN areas |-> H4(nick, areas[a].name)])
    /\ last' = LastEvent("JOIN", c, chan, nick, "", "", Dangling(c, "JOIN->" \o chan))
    /\ UNCHANGED <<seq, dict_order, ircmode, constate, misc_nick, handlers, sent, inchan, motd, unset_calls>>

\* '353->chan': l6 renders the names list
on_353(c, chan, peers) ==
    /\ constate[c] = "up"
    /\ chan \in inchan[c]
    /\ render(c, "353->" \o chan, [a \in DOMAIN areas |-> H6(peers)])
    /\ last' = LastEvent("353", c, chan, "", peers, "", Dangling(c, "353->" \o chan))
    /\ UNCHANGED <<seq, dict_order, ircmode, constate, misc_nick, handlers, sent, inchan, motd, unset_calls>>

\* 'KICK->chan': l8 renders a peer being kicked, with the channel of the closure
on_kick(c, chan, nick, target, msg) ==
    /\ constate[c] = "up"
    /\ chan \in inchan[c]
    /\ render(c, "KICK->" \o chan,
              [a \in DOMAIN areas |-> H8(nick, target, areas[a].name, msg)])
    /\ last' = LastEvent("KICK", c, chan, nick, msg, target, Dangling(c, "KICK->" \o chan))
    /\ UNCHANGED <<seq, dict_order, ircmode, constate, misc_nick, handlers, sent, inchan, motd, unset_calls>>

\* 'QUIT': l7 is `pass`: a quit is rendered nowhere
on_quit(c, nick, msg) ==
    /\ constate[c] = "up"
    /\ Registered(c, "QUIT") # {}
    /\ last' = LastEvent("QUIT", c, "", nick, msg, "", {})
    /\ UNCHANGED <<seq, dict_order, ircmode, constate, misc_nick, handlers, areas, sent,
                   inchan, motd, unset_calls>>

\* H9 % (nick, chan, mode, target)
mode_line(nick, chan, mode, target) == H9(nick, chan, mode, target)

\* 'MODE': the key carries no channel, so l9 of every channel session of the
\* connection runs; chan is l9's own parameter, the channel of the event
on_mode(c, chan, nick, mode, target) ==
    /\ constate[c] = "up"
    /\ chan \in inchan[c]
    /\ render(c, "MODE", [a \in DOMAIN areas |-> mode_line(nick, chan, mode, target)])
    /\ last' = LastEvent("MODE", c, chan, nick, mode, target, Dangling(c, "MODE"))
    /\ UNCHANGED <<seq, dict_order, ircmode, constate, misc_nick, handlers, sent, inchan, motd, unset_calls>>

InitRender == InitWith(OneConfig, {<<"bob", "BOB">>})

NextRender ==
    \E c \in {1} :
        \/ set_up_con(c)
        \/ on_001(c)
        \/ \E nickb \in NewNicks : on_menick(c, nickb)
        \/ \E nick \in {"bob"}, msg \in Texts : on_quit(c, nick, msg)
        \/ \E chan \in ChansJoined :
            \/ on_mejoin(c, chan)
            \/ on_mepart(c, chan)
            \/ \E msg \in Texts : on_chan_msg(c, chan, "bob", msg)
            \/ \E msg \in Texts : on_332(c, chan, msg)
            \/ on_part(c, chan, "bob")
            \/ on_join(c, chan, "bob")
            \/ \E peers \in PeerList : on_353(c, chan, peers)
            \/ \E target \in Peers, msg \in Texts : on_kick(c, chan, "bob", target, msg)
            \/ \E mode \in Modes, target \in Targets : on_mode(c, chan, "bob", mode, target)

SpecRender == InitRender /\ [][NextRender]_vars

(***************************************************************************)
(* Nick completion: reset, complete_nick.                                  *)
(***************************************************************************)
\* what area.complete_word finds for the word at the cursor, by cursor position
CandLists == {<<>>, <<"bob">>, <<"amy", "bob", "cat">>}

\* area.complete_word(area.master): a generator over the candidates, not yet started
complete_word(a, cands) == [area |-> a, cands |-> cands, pos |-> 0]

\* self.seq = ...: the assignment replaces whatever self.seq was
reset_keeps(old, new) == IF old = NoSeq THEN new ELSE old
reset_seq(old, new) == new

\* <Control_R> and <Control_L>: reset replaces self.seq by a new generator
reset(a, key, cands) ==
    /\ areas[a].open
    /\ seq' = [seq EXCEPT ![areas[a].con] = reset_seq(@, complete_word(a, cands))]
    /\ last' = Last(key, areas[a].con, a, "", "", "")
    /\ UNCHANGED <<dict_order, ircmode, constate, misc_nick, handlers, areas, sent, inchan,
                   motd, unset_calls>>

\* seq.next() on an exhausted generator raises StopIteration, which complete_nick
\* swallows: the cursor stays where it is
exhausted_wraps(s) == [s EXCEPT !.pos = 1]
exhausted(s) == s

\* self.seq.next(): the generator after the call
seq_next(s) == IF s.pos < Len(s.cands) THEN [s EXCEPT !.pos = @ + 1] ELSE exhausted(s)

\* the candidate the call puts at the cursor ("" when the generator is exhausted)
seq_shown(s) == IF s.pos < Len(s.cands) THEN s.cands[s.pos + 1] ELSE ""

\* <Control-q>: complete_nick; without an attribute seq the call raises AttributeError,
\* which the except clause does not catch
complete_nick(a) ==
    /\ areas[a].open
    /\ LET c == areas[a].con IN
        IF seq[c] = NoSeq
            THEN /\ seq' = seq
                 /\ last' = LastRaised("Control-q", c, a, "", "", "", {"AttributeError"})
            ELSE /\ seq' = [seq EXCEPT ![c] = seq_next(seq[c])]
                 /\ last' = Last("Control-q", c, a, "", seq_shown(seq[c]), "")
    /\ UNCHANGED <<dict_order, ircmode, constate, misc_nick, handlers, areas, sent, inchan,
                   motd, unset_calls>>

InitComplete == InitWith(OneConfig, {<<"bob", "BOB">>})

NextComplete ==
    \/ \E c \in {1} :
        \/ set_up_con(c)
        \/ on_mejoin(c, "#vy")
    \/ \E a \in AreaIds, key \in {"Control_R", "Control_L"}, cands \in CandLists :
            reset(a, key, cands)
    \/ \E a \in AreaIds : complete_nick(a)
    \/ \E a \in AreaIds, data \in RawCmds : send_cmd(a, data)

SpecComplete == InitComplete /\ [][NextComplete]_vars

(***************************************************************************)
(* The claims.                                                             *)
(***************************************************************************)
IsPong(cmd) == cmd \in {"PONG :" \o t : t \in Tokens}
IsJoin(cmd) == cmd \in {"JOIN " \o ch : ch \in Chans}
NonPong(s)  == SelectSeq(s, LAMBDA cmd : ~IsPong(cmd))
Joins(s)    == SelectSeq(s, IsJoin)
JoinList(chs) == [i \in 1..Len(chs) |-> "JOIN " \o chs[i]]

\* C1: with no user input, and PONGs left aside, the commands sent from the
\* connect up to and including the first 376 are NICK N, USER U, P, JOIN C1,
\* ..., JOIN Ck, in this order; before the first 376 they are NICK N, USER U.
C1_LoginSequence ==
    \A c \in Cons :
        constate[c] \in {"up", "closed"} =>
            LET s   == NonPong(sent[c])
                cfg == ircmode[c]
                hello == <<"NICK " \o cfg.nick, "USER " \o cfg.user>>
                upto376 == hello \o <<cfg.irccmd>> \o JoinList(cfg.channels)
            IN  IF motd[c] = 0
                    THEN s = hello
                    ELSE /\ Len(s) >= Len(upto376)
                         /\ SubSeq(s, 1, Len(upto376)) = upto376

C1_Witness ==
    /\ motd[1] = 1
    /\ Len(ircmode[1].channels) = 2
    /\ ircmode[1].channels[1] # ircmode[1].channels[2]
    /\ Len(sent[1]) = 5

\* C2: an auto-join list of three channels produces exactly three JOIN
\* commands, in list order, none before the first 376, whatever events arrive
\* (a second 376 included).
C2_ExactlyThreeJoins ==
    \A c \in Cons :
        LET chs == ircmode[c].channels IN
        (Len(chs) = 3 /\ Cardinality({chs[i] : i \in 1..3}) = 3) =>
            /\ motd[c] = 0 => Joins(sent[c]) = <<>>
            /\ motd[c] >= 1 => Joins(sent[c]) = JoinList(chs)

\* C3: once the session of a channel surface has been torn down (its unset has
\* run, after a self-part or a kick), no handler registration that references
\* the channel's surface is left on the connection, the two transition
\* handlers included.
C3_NoHandlerAfterTeardown ==
    \A a \in AreaIds :
        (areas[a].kind = "chan" /\ unset_calls[a] >= 1) => SessionHandlers(a) = {}

\* C4: the unset closure of a channel session runs at most once over the life
\* of the connection.
C4_UnsetAtMostOnce ==
    \A a \in AreaIds : unset_calls[a] <= 1

\* C5: closing a channel's surface unregisters the session's handlers in the
\* same step: no destroyed surface has a registered handler.
C5_NoHandlerOnDestroyedSurface ==
    \A a \in AreaIds : ~areas[a].open => SessionHandlers(a) = {}

\* C6: once the connection has closed, no session of that connection has a
\* registered handler.
C6_CloseReleasesSubscriptions ==
    \A c \in Cons :
        constate[c] = "closed" =>
            {h \in handlers : h.con = c /\ h.area # 0 /\ areas[h.area].kind # "net"} = {}

\* the open surfaces whose name is the nick, letter case left aside
Matches(nick) == {a \in OpenAreas : Lower[areas[a].name] = Lower[nick]}

\* C7: no two open sessions of one kind on one connection have the same name,
\* letter case left aside.
C7_OneSessionPerName ==
    \A a, b \in OpenAreas :
        (/\ a # b
         /\ areas[a].con = areas[b].con
         /\ areas[a].kind = areas[b].kind
         /\ areas[a].kind \in {"chan", "user"})
            => Lower[areas[a].name] # Lower[areas[b].name]

\* C8: a private message from a nick that has an open session under any
\* spelling creates no session and goes to a session of that nick, the one
\* every other upper/lower-case spelling of the nick selects too.
C8_CaseVariantsSameSession ==
    [][(last'.op = "PMSG" /\ Matches(last'.arg) # {}) =>
          /\ Len(areas') = Len(areas)
          /\ last'.area \in Matches(last'.arg)
          /\ \A v \in Peers : Lower[v] = Lower[last'.arg] => Lookup(v) = last'.area
      ]_vars

C8_Witness ==
    /\ last.op = "PMSG"
    /\ last.arg = "BOB"
    /\ last.ret = ""
    /\ areas[last.area].name = "bob"
    /\ areas[last.area].lines # <<>>
    /\ areas[last.area].lines[Len(areas[last.area].lines)] = "<BOB> hi\n"

\* C9: a private message from a nick with no open session creates exactly one
\* session, named after the nick, whose only line is the message; with an open
\* session it creates none and appends the message once to that session; in
\* both cases no other surface changes.
C9_DeliverCreatesThenAppends ==
    [][last'.op = "PMSG" =>
          LET nick == last'.arg
              line == "<" \o nick \o "> " \o last'.text \o "\n"
              t    == last'.area
          IN  IF Matches(nick) = {}
                THEN /\ last'.ret = "KeyError"
                     /\ Len(areas') = Len(areas) + 1
                     /\ t = Len(areas) + 1
                     /\ areas'[t] = [name |-> nick, kind |-> "user", con |-> last'.con,
                                     open |-> TRUE, lines |-> <<line>>]
                     /\ \A a \in AreaIds : areas'[a] = areas[a]
                ELSE /\ last'.ret = ""
                     /\ Len(areas') = Len(areas)
                     /\ t \in Matches(nick)
                     /\ areas'[t].lines = Append(areas[t].lines, line)
                     /\ \A a \in AreaIds \ {t} : areas'[a] = areas[a]
      ]_vars

C9_Witness ==
    /\ last.op = "PMSG"
    /\ last.ret = "KeyError"
    /\ last.area = Len(areas)
    /\ areas[last.area].name = "BOB"
    /\ areas[last.area].lines = <<"<BOB> hi\n">>
    /\ \E a \in AreaIds : ~areas[a].open /\ areas[a].name = "bob"

\* C10: <Return> with text T in a session's surface sends one
\* PRIVMSG <target> :T (T in UTF-8), appends one line <me> T with me the
\* connection's current nickname, and returns 'break'; nothing else changes.
C10_EnterSendsAndEchoes ==
    [][last'.op = "Return" =>
          LET a == last'.area
              c == areas[a].con
              T == last'.text
          IN  /\ sent' = [sent EXCEPT ![c] =
                            Append(@, "PRIVMSG " \o areas[a].name \o " :" \o Utf8[T])]
              /\ areas' = [areas EXCEPT ![a].lines =
                            Append(@, "<" \o misc_nick[c] \o "> " \o T \o "\n")]
              /\ last'.ret = "break"
              /\ UNCHANGED <<handlers, misc_nick, constate>>
      ]_vars

C10_Witness ==
    /\ last.op = "Return"
    /\ misc_nick[1] = "vy_"
    /\ ircmode[1].nick = "vy"
    /\ areas[last.area].kind = "chan"
    /\ areas[last.area].lines[Len(areas[last.area].lines)] = "<vy_> caf<U+E9>\n"
    /\ sent[1][Len(sent[1])] = "PRIVMSG #vy :caf<C3><A9>"

\* C11: with the cursor set over a candidate list, each advance moves one step
\* forward and shows the next candidate (a, b, c for three candidates); an
\* advance on the exhausted cursor changes nothing, raises nothing and does
\* not start again at the first candidate.
C11_AdvanceThenAbsorb ==
    [][(last'.op = "Control-q" /\ seq[last'.con] # NoSeq) =>
          LET c == last'.con
              s == seq[c]
          IN  /\ last'.raised = {}
              /\ seq'[c].cands = s.cands /\ seq'[c].area = s.area
              /\ IF s.pos < Len(s.cands)
                    THEN seq'[c].pos = s.pos + 1 /\ last'.text = s.cands[s.pos + 1]
                    ELSE seq'[c].pos = s.pos /\ last'.text = ""
      ]_vars

C11_Witness ==
    /\ last.op = "Control-q"
    /\ last.text = ""
    /\ last.raised = {}
    /\ seq[1].cands = <<"amy", "bob", "cat">>
    /\ seq[1].pos = 3

\* C12 (as claimed): after any key other than the advance key the cursor is
\* fresh, so the next advance starts a new completion attempt.
C12_AnyOtherKeyResets ==
    (last.op \in {"Control_R", "Control_L", "Control-e"} /\ seq[last.con] # NoSeq)
        => seq[last.con].pos = 0

\* C12 (amended): a press of Control_R or Control_L replaces the cursor by a
\* fresh one over the candidates at the surface's cursor, so the next advance
\* shows its first candidate; any other key leaves the cursor as it is.
C12_ControlKeysReset ==
    [][/\ last'.op \in {"Control_R", "Control_L"} =>
            /\ seq'[last'.con].pos = 0
            /\ seq'[last'.con].area = last'.area
       /\ last'.op \notin {"Control_R", "Control_L", "Control-q"} => seq' = seq
       /\ (last'.op = "Control-q" /\ last.op \in {"Control_R", "Control_L"}
             /\ last.con = last'.con /\ seq[last.con].cands # <<>>) =>
            last'.text = seq[last.con].cands[1]
      ]_vars

C12_Witness ==
    /\ last.op = "Control_L"
    /\ seq[1] = [area |-> 2, cands |-> <<"bob">>, pos |-> 0]
    /\ "PART #vy" \in {sent[1][i] : i \in DOMAIN sent[1]}

\* C20: the advance key never fails, also when no reset key was pressed before.
C20_AdvanceNeverFails ==
    last.op = "Control-q" => last.raised = {}

\* C13: on a connect error the failure is reported and the session never
\* starts: nothing is ever sent on the connection, no surface is created for
\* it, no handler is registered on it, and the connection is not attempted
\* again.
C13_FailedNeverStarts ==
    /\ [](\A c \in Cons : constate[c] = "failed" =>
            /\ sent[c] = <<>>
            /\ \A a \in AreaIds : areas[a].con # c
            /\ \A h \in handlers : h.con # c
            /\ (last.op = "CONNECT_ERR" /\ last.con = c) => last.text = "not connected")
    /\ [][\A c \in Cons : constate[c] = "failed" => constate'[c] = "failed"]_vars

C13_Witness ==
    /\ constate[1] = "failed"
    /\ last.op = "CONNECT_ERR"
    /\ last.text = "not connected"
    /\ ircmode[1].channels # <<>>

\* C14: a channel session that can still be found in the registry of open
\* surfaces has its handlers registered: the registry entry goes away in the
\* step that unregisters the handlers (self-part, kick).
C14_RegistryEntryGoesWithHandlers ==
    \A a \in AreaIds :
        (areas[a].kind = "chan" /\ a \in OpenAreas /\ areas[a].name \in DOMAIN opened_files)
            => chan_events(areas[a].con, areas[a].name, a) \subseteq handlers

\* C15: destroying a channel's surface sends 'PART <channel>' and nothing
\* else; when the self-part is then processed, the registrations and the
\* state of every session of the channel end up the same whether its surface
\* was destroyed (part started from the UI) or is still open (part started by
\* a raw PART command): only the kick transition stays registered, unset has
\* run once more, and the channel is no longer joined.
C15_TeardownConverges ==
    /\ [][(last'.op = "Destroy" /\ areas[last'.area].kind = "chan") =>
            /\ sent'[last'.con] = Append(sent[last'.con], "PART " \o areas[last'.area].name)
            /\ handlers' = handlers /\ inchan' = inchan /\ unset_calls' = unset_calls
         ]_vars
    /\ [][last'.op = "MEPART" =>
            \A a \in AreaIds :
                Handler(last'.con, MEPART(last'.arg), "chan.unset", a) \in handlers =>
                    /\ {h \in handlers' : h.area = a} =
                            {Handler(last'.con, KICKME(last'.arg), "chan.unset", a)}
                               \cap handlers
                    /\ unset_calls'[a] = unset_calls[a] + 1
                    /\ last'.arg \notin inchan'[last'.con]
         ]_vars

C15_Witness ==
    /\ last.op = "MEPART"
    /\ last.arg = "#vy"
    /\ sent[1] = login(ircmode[1]) \o <<"PART #vy">>
    /\ \E a \in AreaIds :
        /\ areas[a].name = "#vy"
        /\ ~areas[a].open
        /\ SessionHandlers(a) = {Handler(1, KICKME("#vy"), "chan.unset", a)}
        /\ unset_calls[a] = 1

\* the line the display formats document for a rendered event
Documented(e) ==
    CASE e.op = "PRIVMSG" -> "<" \o "bob" \o "> " \o e.text
      [] e.op = "332"     -> "Topic :" \o e.text
      [] e.op = "PART"    -> ">>> " \o e.nick \o " has left " \o e.arg \o " <<<"
      [] e.op = "JOIN"    -> ">>> " \o e.nick \o " has joined " \o e.arg \o " <<<"
      [] e.op = "MENICK"  -> ">>> " \o MyNick \o " is now known as " \o e.arg \o " <<<"
      [] e.op = "353"     -> "Peers:" \o e.text
      [] e.op = "KICK"    -> ">>> " \o e.nick \o " has kicked " \o e.target \o " from "
                                \o e.arg \o " (" \o e.text \o ") <<<"
      [] e.op = "MODE"    -> ">>> " \o e.nick \o " sets mode " \o e.text \o " "
                                \o e.target \o " <<<"

RenderedKinds == {"PRIVMSG", "332", "PART", "JOIN", "MENICK", "353", "KICK", "MODE"}

\* C16: every line a rendered event appends is exactly the documented line of
\* its kind (chat, topic, part, join, own nick change, names list, kick,
\* mode), closed by a newline.
C16_DocumentedLines ==
    [][last'.op \in RenderedKinds =>
          \A a \in DOMAIN areas :
              areas'[a].lines # areas[a].lines =>
                  areas'[a].lines = Append(areas[a].lines, Documented(last') \o "\n")
      ]_vars

ChannelKinds == {"PRIVMSG", "332", "PART", "JOIN", "353", "KICK", "MODE"}

\* the channel session of surface a is active: its rendering handlers are registered
Active(a) ==
    /\ areas[a].kind = "chan"
    /\ chan_events(areas[a].con, areas[a].name, a) \subseteq handlers

\* C17: an event of a registered kind that concerns channel C appends exactly
\* one line to the surface of each active session of C and nothing to the
\* surface of a session of another channel; a MODE for D is not rendered in
\* the surface of C.
C17_OnlyOwnChannel ==
    [][last'.op \in ChannelKinds =>
          \A a \in DOMAIN areas :
              Active(a) =>
                  IF areas[a].name = last'.arg
                      THEN Len(areas'[a].lines) = Len(areas[a].lines) + 1
                      ELSE areas'[a].lines = areas[a].lines
      ]_vars

Pongs(s) == SelectSeq(s, IsPong)

\* C18: on a connection that is up, the step that handles a PING with token T
\* sends 'PONG :T' once, as the only command of that step, and no other step
\* sends a PONG: the PONGs sent are, in order, the tokens of the PINGs handled.
C18_OnePongPerPing ==
    [][\A c \in Cons :
          IF last'.op = "PING" /\ last'.con = c
              THEN /\ constate[c] = "up"
                   /\ sent'[c] = Append(sent[c], "PONG :" \o last'.arg)
              ELSE Pongs(sent'[c]) = Pongs(sent[c])
      ]_vars

C18_Witness ==
    /\ last.op = "PING"
    /\ last.arg = "tok2"
    /\ Pongs(sent[1]) = <<"PONG :tok1", "PONG :tok2">>
    /\ sent[1][Len(sent[1])] = "PONG :tok2"
    /\ motd[1] > 0

\* C19: a private message received on one connection changes (or creates)
\* only surfaces of that connection's session, and changes nothing that the
\* other connection has sent.
C19_DeliveredToOwnSession ==
    [][last'.op = "PMSG" =>
          /\ \A a \in DOMAIN areas' :
                (a \notin DOMAIN areas \/ areas'[a] # areas[a]) => areas'[a].con = last'.con
          /\ \A c \in Cons \ {last'.con} : sent'[c] = sent[c]
      ]_vars

====
